---- MODULE Spec2Model ----
(***************************************************************************)
(* Gradient (Perlin) noise and fractal noise, src/py/perlin2d.py and       *)
(* src/py/perlin3d.py.                                                     *)
(*                                                                         *)
(* Numbers.  A real is modelled exactly: a rational is a pair <<n, d>>     *)
(* in lowest terms with d > 0, and a field sample is a pair <<a, b>> of    *)
(* rationals standing for a + b*sqrt(2) (the 2D evaluator scales by        *)
(* np.sqrt(2)).  The one place where the rounding of IEEE doubles decides  *)
(* an array SHAPE, the size np.mgrid derives from a float step, is         *)
(* modelled with the rounding (MgridSize).                                 *)
(*                                                                         *)
(* Arrays.  A numpy array is a record [sh, at]: sh is its shape (a tuple   *)
(* of axis lengths) and at maps each 0-based index tuple to the entry.     *)
(* The trailing component axis of the gradient and grid arrays (length 2   *)
(* in 2D, 3 in 3D) is folded into the entry, which is then a tuple.        *)
(*                                                                         *)
(* Control.  An evaluator call runs in four steps, each an action: draw    *)
(* the gradients, overwrite the seams, repeat and slice, evaluate the      *)
(* ramps.  A fractal call runs its loop one evaluator call at a time.      *)
(***************************************************************************)
EXTENDS Integers, Sequences, FiniteSets, TLC

\* ------------------------------------------------------------------ bounds

\* Largest axis length of a 2D shape whose field is computed sample by sample.
MaxShape == 4
\* Largest axis length of a 3D shape.
MaxShape3 == 2
\* Largest octaves argument.
MaxOctaves == 3
\* Largest axis length in the specification that follows array shapes only.
MaxWide == 50

\* Significand width of the double that res[i] / shape[i] produces.
MantissaBits == 53

\* ------------------------------------------------------------- arithmetic

Abs(n) == IF n < 0 THEN -n ELSE n

Max(a, b) == IF a >= b THEN a ELSE b

Min(a, b) == IF a <= b THEN a ELSE b

Pos == Nat \ {0}

\* The rationals, as pairs.
Q == Int \X Pos

\* The numbers a + b*sqrt(2), as pairs of rationals.
V == Q \X Q

GCD[a \in Nat, b \in Nat] == IF b = 0 THEN a ELSE GCD[b, a % b]

Pow[b \in Int, n \in Int] == IF n <= 0 THEN 1 ELSE b * Pow[b, n - 1]

\* b^n mod m by squaring, computed without ever forming b^n.
PowMod[b \in Nat, n \in Int, m \in Pos] ==
    IF n <= 0 THEN 1 % m
    ELSE IF n % 2 = 0 THEN (PowMod[b, n \div 2, m] * PowMod[b, n \div 2, m]) % m
    ELSE (b * PowMod[b, n - 1, m]) % m

\* floor(log2(n)) for n >= 1.
Log2Floor[n \in Pos] == IF n = 1 THEN 0 ELSE 1 + Log2Floor[n \div 2]

RNorm[n \in Int, d \in Pos] == <<n \div GCD[Abs(n), d], d \div GCD[Abs(n), d]>>

RInt(n) == <<n, 1>>

RAdd[x \in Q, y \in Q] ==
    LET l == (x[2] \div GCD[x[2], y[2]]) * y[2]
    IN  RNorm[x[1] * (l \div x[2]) + y[1] * (l \div y[2]), l]

RSub[x \in Q, y \in Q] == RAdd[x, <<-y[1], y[2]>>]

RMul[x \in Q, y \in Q] ==
    IF x[1] = 0 \/ y[1] = 0 THEN <<0, 1>>
    ELSE <<(x[1] \div GCD[Abs(x[1]), y[2]]) * (y[1] \div GCD[Abs(y[1]), x[2]]),
           (x[2] \div GCD[Abs(y[1]), x[2]]) * (y[2] \div GCD[Abs(x[1]), y[2]])>>

\* p^k for a rational p.
RPow[p \in Q, k \in Int] == IF k <= 0 THEN RInt(1) ELSE RMul[RPow[p, k - 1], p]

VZero == <<RInt(0), RInt(0)>>

VRat(x) == <<x, RInt(0)>>

VAdd[v \in V, w \in V] == <<RAdd[v[1], w[1]], RAdd[v[2], w[2]]>>

VScale[x \in Q, v \in V] == <<RMul[x, v[1]], RMul[x, v[2]]>>

\* np.sqrt(2) * x for a rational x.
Sqrt2Times(x) == <<RInt(0), x>>

\* ------------------------------------------------------------------ arrays

Idx(sh) ==
    IF Len(sh) = 2 THEN (0 .. sh[1] - 1) \X (0 .. sh[2] - 1)
    ELSE (0 .. sh[1] - 1) \X (0 .. sh[2] - 1) \X (0 .. sh[3] - 1)

Axes(sh) == 1 .. Len(sh)

\* A function over 1..2 or 1..3 as the tuple it is.
Tup(f) == IF Len(f) = 2 THEN <<f[1], f[2]>> ELSE <<f[1], f[2], f[3]>>

\* The index or shape i with entry k replaced by v.
With(i, k, v) == Tup([i EXCEPT ![k] = v])

Size(sh) == IF Len(sh) = 2 THEN sh[1] * sh[2] ELSE sh[1] * sh[2] * sh[3]

NoArray == [sh |-> <<>>, at |-> <<>>]

\* A start or stop of a Python slice over an axis of length n.
PyIndex(k, n) == IF k < 0 THEN Max(k + n, 0) ELSE Min(k, n)

\* The bounds <<lo, hi>> of a[:-d] and of a[d:] over an axis of length n.
ToMinus(d, n) == <<0, PyIndex(-d, n)>>

From(d, n) == <<PyIndex(d, n), n>>

\* The shape of a[lo:hi] along one axis.
SliceShape(sh, axis, b) == With(sh, axis, Max(b[2] - b[1], 0))

\* a[lo:hi] along one axis, for b = <<lo, hi>>.
Slice(a, axis, b) ==
    [sh |-> SliceShape(a.sh, axis, b),
     at |-> [i \in Idx(SliceShape(a.sh, axis, b)) |->
               a.at[With(i, axis, i[axis] + b[1])]]]

\* The shape of a.repeat(d, axis).
RepeatShape(sh, d, axis) == With(sh, axis, sh[axis] * d)

\* np.tile along one axis: the whole axis d times over.
RepeatTiled(a, d, axis) ==
    [sh |-> RepeatShape(a.sh, d, axis),
     at |-> [i \in Idx(RepeatShape(a.sh, d, axis)) |->
               a.at[With(i, axis, i[axis] % a.sh[axis])]]]

\* ndarray.repeat(d, axis): every entry along the axis d times in a row.
Repeat(a, d, axis) ==
    [sh |-> RepeatShape(a.sh, d, axis),
     at |-> [i \in Idx(RepeatShape(a.sh, d, axis)) |->
               a.at[With(i, axis, i[axis] \div d)]]]

\* A seam overwrite that copies the first slice only where no earlier
\* overwrite has written (it leaves the last entries of the other axes alone).
SetLastPartial(a, axis) ==
    [sh |-> a.sh,
     at |-> [i \in Idx(a.sh) |->
               IF /\ i[axis] = a.sh[axis] - 1
                  /\ \A b \in Axes(a.sh) : b < axis => i[b] < a.sh[b] - 1
               THEN a.at[With(i, axis, 0)] ELSE a.at[i]]]

\* gradients[..., -1, ...] = gradients[..., 0, ...] along one axis.
SetLast(a, axis) ==
    [sh |-> a.sh,
     at |-> [i \in Idx(a.sh) |->
               IF i[axis] = a.sh[axis] - 1 THEN a.at[With(i, axis, 0)] ELSE a.at[i]]]

\* numpy's broadcast of two axis lengths; -1 stands for the ValueError.
BDim(a, b) == IF a = b THEN a ELSE IF a = 1 THEN b ELSE IF b = 1 THEN a ELSE -1

Broadcast(s, t) ==
    Tup([k \in Axes(s) |-> IF s[k] < 0 \/ t[k] < 0 THEN -1 ELSE BDim(s[k], t[k])])

BroadcastOk(s) == \A k \in Axes(s) : s[k] >= 0

\* The index of the operand entry that output index i reads.
BIdx(i, sh) == Tup([k \in Axes(sh) |-> IF sh[k] = 1 THEN 0 ELSE i[k]])

\* np.zeros(shape)
Zeros(shape) == [sh |-> shape, at |-> [i \in Idx(shape) |-> VZero]]

\* ------------------------------------------------------ np.random (global)

\* The generator's state is [state, count]: the state proper and the number
\* of draws consumed since it was seeded.  A draw steps the state and
\* returns a quarter turn u in 0..3, standing for the uniform real u/4.
RngStep(x) == (5 * x + 3) % 64

\* The state after n steps, in closed form: RngStep taken n times maps x to
\* 5^n * x + 3 * (5^n - 1) / 4 modulo 64, and (5^n - 1) / 4 modulo 64 needs
\* 5^n modulo 256.
RngNth[x \in 0 .. 63, n \in Nat] ==
    (PowMod[5, n, 256] * x + 3 * ((PowMod[5, n, 256] - 1) \div 4)) % 64

RngOut(x) == x \div 16

\* np.random.seed(s)
Seeded(s) == [state |-> s, count |-> 0]

\* Position of an index in C (row-major) order.
Flat(i, sh) ==
    IF Len(sh) = 2 THEN i[1] * sh[2] + i[2]
    ELSE (i[1] * sh[2] + i[2]) * sh[3] + i[3]

\* The generator after n draws.
Advance(g, n) == [state |-> RngNth[g.state, n], count |-> g.count + n]

\* np.random.rand(*sh): the array drawn from generator state g.
rand(g, sh) ==
    [sh |-> sh, at |-> [i \in Idx(sh) |-> RngOut(RngNth[g.state, Flat(i, sh) + 1])]]

\* cos and sin of 2*pi*(u/4).
Cos4(u) == CASE u = 0 -> 1 [] u = 1 -> 0 [] u = 2 -> -1 [] OTHER -> 0

Sin4(u) == CASE u = 0 -> 0 [] u = 1 -> 1 [] u = 2 -> 0 [] OTHER -> -1

\* ------------------------------------------------------------- np.mgrid

\* The least c >= c0 with res * 2^c >= shape, for shape > res.
ExpUp[res \in Pos, shape \in Pos, c \in Nat] ==
    IF res * Pow[2, c] >= shape THEN c ELSE ExpUp[res, shape, c + 1]

\* Minus the greatest c >= c0 with res >= shape * 2^c, for res >= shape.
ExpDown[res \in Pos, shape \in Pos, c \in Nat] ==
    IF res < shape * Pow[2, c + 1] THEN -c ELSE ExpDown[res, shape, c + 1]

\* The number of points of np.mgrid[0:res:delta] for delta = res / shape:
\* int(math.ceil((stop - start) / (step * 1.0))), every operation rounded to
\* the nearest double, ties to even.  With step = m * 2^-e (m the rounded
\* significand, e = MantissaBits - 1 + c) and r = res * 2^e - m * shape, the
\* quotient res / step is shape + r / m; it rounds above shape, and the ceiling
\* is shape + 1, exactly when step was rounded down (r > 0) and r / m exceeds
\* half a unit in the last place of shape, that is r * shape > res * 2^g for
\* g = c + floor(log2(shape)) - 1.  Otherwise the size is shape.
MgridSize[res \in Pos, shape \in Pos] ==
    LET c    == IF res >= shape THEN ExpDown[res, shape, 0] ELSE ExpUp[res, shape, 0]
        e    == MantissaBits - 1 + c
        rem  == (res * PowMod[2, e, shape]) % shape
        low  == ((res * PowMod[2, e, 2 * shape]) % (2 * shape)) \div shape
        down == 2 * rem < shape \/ (2 * rem = shape /\ low = 0)
        g    == c + Log2Floor[shape] - 1
        over == IF g >= 0 THEN rem * shape > res * Pow[2, g]
                ELSE rem * shape * Pow[2, -g] > res
    IN  IF rem > 0 /\ down /\ over THEN shape + 1 ELSE shape

\* (i * delta) % 1 in exact arithmetic: the sample's position in its cell.
Frac(i, res, shape) == RNorm[(i * res) % shape, shape]

\* ----------------------------------------- the evaluators, stage by stage

\* d = (shape[0] // res[0], ...)
CellSize(shape, res) == Tup([k \in Axes(shape) |-> shape[k] \div res[k]])

\* The shape of np.mgrid[0:res[0]:delta[0], ...].
GridShape(shape, res) == Tup([k \in Axes(shape) |-> MgridSize[res[k], shape[k]]])

\* grid = np.mgrid[...].transpose(...) % 1
Grid(shape, res) ==
    [sh |-> GridShape(shape, res),
     at |-> [i \in Idx(GridShape(shape, res)) |->
               Tup([k \in Axes(shape) |-> Frac(i[k], res[k], shape[k])])]]

\* (res[0] + 1, ...), the shape of the lattice.
LatticeShape(res) == Tup([k \in Axes(res) |-> res[k] + 1])

\* A count of the cells, not of the lattice points.
DrawCountCells(res) == Size(res)

\* The numbers one np.random.rand(res[0]+1, ...) draws.
DrawCount(res) == Size(LatticeShape(res))

\* A generator that drawing leaves where it was.
DrawnStale(g, n) == g

\* The global generator after n draws.
Drawn(g, n) == Advance(g, n)

\* perlin2d.py: angles = 2*pi*rand(...); gradients = dstack((cos, sin)).
Gradients2D(res, g) ==
    [sh |-> LatticeShape(res),
     at |-> [i \in Idx(LatticeShape(res)) |->
               <<Cos4(rand(g, LatticeShape(res)).at[i]),
                 Sin4(rand(g, LatticeShape(res)).at[i])>>]]

\* perlin3d.py: theta = 2*pi*rand(...), then phi = 2*pi*rand(...);
\* gradients = stack((sin(phi)*cos(theta), sin(phi)*sin(theta), cos(phi))).
Gradients3D(res, g) ==
    [sh |-> LatticeShape(res),
     at |-> [i \in Idx(LatticeShape(res)) |->
               LET theta == rand(g, LatticeShape(res)).at[i]
                   phi   == rand(Advance(g, DrawCount(res)), LatticeShape(res)).at[i]
               IN  <<Sin4(phi) * Cos4(theta), Sin4(phi) * Sin4(theta), Cos4(phi)>>]]

\* if tileable[k]: gradients[.., -1, ..] = gradients[.., 0, ..], axis by axis.
Tile(a, tileable) ==
    LET t1 == IF tileable[1] THEN SetLast(a, 1) ELSE a
        t2 == IF tileable[2] THEN SetLast(t1, 2) ELSE t1
    IN  IF Len(tileable) = 2 THEN t2
        ELSE IF tileable[3] THEN SetLast(t2, 3) ELSE t2

\* gradients.repeat(d[0], 0).repeat(d[1], 1)...
Repeated(a, d) ==
    IF Len(d) = 2 THEN Repeat(Repeat(a, d[1], 1), d[2], 2)
    ELSE Repeat(Repeat(Repeat(a, d[1], 1), d[2], 2), d[3], 3)

\* The slice bounds along axis k of the corner array of corner c: [:-d] for
\* the near corner (0), [d:] for the far corner (1).
CornerBounds(sh, d, c, k) == IF c[k] = 0 THEN ToMinus(d[k], sh[k]) ELSE From(d[k], sh[k])

\* gXYZ = gradients[.., .., ..] for the corner c = <<X, Y, Z>> of the cell.
CornerArray(a, d, c) ==
    IF Len(d) = 2
    THEN Slice(Slice(a, 1, CornerBounds(a.sh, d, c, 1)), 2, CornerBounds(a.sh, d, c, 2))
    ELSE Slice(Slice(Slice(a, 1, CornerBounds(a.sh, d, c, 1)),
                     2, CornerBounds(a.sh, d, c, 2)), 3, CornerBounds(a.sh, d, c, 3))

\* The corners in the order the code names them: g00, g10, g01, g11, and
\* g000, g100, g010, g110, g001, g101, g011, g111.
CornerOffsets(n) ==
    IF n = 2 THEN << <<0, 0>>, <<1, 0>>, <<0, 1>>, <<1, 1>> >>
    ELSE << <<0, 0, 0>>, <<1, 0, 0>>, <<0, 1, 0>>, <<1, 1, 0>>,
            <<0, 0, 1>>, <<1, 0, 1>>, <<0, 1, 1>>, <<1, 1, 1>> >>

\* The shape the repeated lattice has, and the shape of each corner array.
RepeatedShape(res, d) ==
    IF Len(d) = 2 THEN RepeatShape(RepeatShape(LatticeShape(res), d[1], 1), d[2], 2)
    ELSE RepeatShape(RepeatShape(RepeatShape(LatticeShape(res), d[1], 1), d[2], 2), d[3], 3)

CornerShape(sh, d, c) ==
    IF Len(d) = 2
    THEN SliceShape(SliceShape(sh, 1, CornerBounds(sh, d, c, 1)), 2, CornerBounds(sh, d, c, 2))
    ELSE SliceShape(SliceShape(SliceShape(sh, 1, CornerBounds(sh, d, c, 1)),
                               2, CornerBounds(sh, d, c, 2)), 3, CornerBounds(sh, d, c, 3))

\* The shape numpy gives the ramps and the field: the grid broadcast
\* against the corner arrays, some axis -1 where it raises.
FieldShape(gsh, cs) ==
    IF Len(cs) = 4
    THEN Broadcast(Broadcast(Broadcast(Broadcast(gsh, cs[1]), cs[2]), cs[3]), cs[4])
    ELSE Broadcast(Broadcast(Broadcast(Broadcast(Broadcast(Broadcast(Broadcast(Broadcast(
             gsh, cs[1]), cs[2]), cs[3]), cs[4]), cs[5]), cs[6]), cs[7]), cs[8])

\* def interpolant(t): return t*t*t*(t*(t*6 - 15) + 10)
interpolant[t \in Q] ==
    RMul[RMul[RMul[t, t], t], RAdd[RMul[t, RSub[RMul[t, RInt(6)], RInt(15)]], RInt(10)]]

\* The interpolant argument: the default, or the caller's f(t) = t.
Interp(f, t) == IF f = "default" THEN interpolant[t] ELSE t

\* A ramp that measures every offset from the cell's far corner.
RampFar(p, c) == [k \in DOMAIN p |-> RSub[p[k], RInt(1)]]

\* The offset of local position p from the cell corner c (a tuple of 0 and 1).
Ramp(p, c) == [k \in DOMAIN p |-> RSub[p[k], RInt(c[k])]]

\* np.sum(offset * g, axis = last) for an offset of rationals and an integer g.
Dot(off, g) ==
    IF Len(g) = 2 THEN RAdd[RMul[off[1], RInt(g[1])], RMul[off[2], RInt(g[2])]]
    ELSE RAdd[RAdd[RMul[off[1], RInt(g[1])], RMul[off[2], RInt(g[2])]],
              RMul[off[3], RInt(g[3])]]

\* a*(1-t) + t*b
Lerp[a \in Q, b \in Q, t \in Q] == RAdd[RMul[a, RSub[RInt(1), t]], RMul[t, b]]

\* perlin2d.py, one sample: p its position in the cell, g the gradients of
\* the four corners, f the interpolant.
Sample2D(p, g, f) ==
    Sqrt2Times(Lerp[Lerp[Dot(Ramp(p, <<0, 0>>), g[1]), Dot(Ramp(p, <<1, 0>>), g[2]),
                         Interp(f, p[1])],
                    Lerp[Dot(Ramp(p, <<0, 1>>), g[3]), Dot(Ramp(p, <<1, 1>>), g[4]),
                         Interp(f, p[1])],
                    Interp(f, p[2])])

\* perlin3d.py, one sample.
Sample3D(p, g, f) ==
    VRat(Lerp[Lerp[Lerp[Dot(Ramp(p, <<0, 0, 0>>), g[1]), Dot(Ramp(p, <<1, 0, 0>>), g[2]),
                        Interp(f, p[1])],
                   Lerp[Dot(Ramp(p, <<0, 1, 0>>), g[3]), Dot(Ramp(p, <<1, 1, 0>>), g[4]),
                        Interp(f, p[1])],
                   Interp(f, p[2])],
              Lerp[Lerp[Dot(Ramp(p, <<0, 0, 1>>), g[5]), Dot(Ramp(p, <<1, 0, 1>>), g[6]),
                        Interp(f, p[1])],
                   Lerp[Dot(Ramp(p, <<0, 1, 1>>), g[7]), Dot(Ramp(p, <<1, 1, 1>>), g[8]),
                        Interp(f, p[1])],
                   Interp(f, p[2])],
              Interp(f, p[3])])

\* The ramps and the interpolation: the field of shape sh from the grid and
\* the corner arrays cs, each operand read where broadcasting reads it.
Field(sh, grd, cs, f) ==
    [sh |-> sh,
     at |-> [i \in Idx(sh) |->
               IF Len(sh) = 2
               THEN Sample2D(grd.at[BIdx(i, grd.sh)],
                             [c \in 1 .. 4 |-> cs[c].at[BIdx(i, cs[c].sh)]], f)
               ELSE Sample3D(grd.at[BIdx(i, grd.sh)],
                             [c \in 1 .. 8 |-> cs[c].at[BIdx(i, cs[c].sh)]], f)]]

\* generate_perlin_noise_2d as a function of its arguments and of the
\* generator state g it is entered with: the array it returns, where it returns.
generate_perlin_noise_2d(shape, res, tileable, f, g) ==
    LET d   == CellSize(shape, res)
        rep == Repeated(Tile(Gradients2D(res, g), tileable), d)
        cs  == [c \in 1 .. 4 |-> CornerArray(rep, d, CornerOffsets(2)[c])]
        grd == Grid(shape, res)
    IN  Field(FieldShape(grd.sh, [c \in 1 .. 4 |-> cs[c].sh]), grd, cs, f)

\* ------------------------------------------------------------ the program

VARIABLES
    rng,        \* the state of the global generator np.random
    pc,         \* where control is: "idle", "octaves" (at the head of a fractal
                \* loop), "gradients", "tile", "corners", "ramps" (inside an
                \* evaluator call), "returned", "raised"
    call,       \* the arguments of the outermost call
    ev,         \* the evaluator call in progress: its res, the generator at entry
    grid,       \* evaluator local: grid
    gradients,  \* evaluator local: gradients
    corners,    \* evaluator locals: g00 .. g11, or g000 .. g111
    noise,      \* generate_fractal_noise_*: the accumulated field
    frequency,  \* generate_fractal_noise_*: the frequency of the next octave
    amplitude,  \* generate_fractal_noise_*: the amplitude of the next octave
    octave,     \* generate_fractal_noise_*: iterations of the loop completed
    evals,      \* the evaluator calls completed so far, in order
    ret         \* the array returned to the caller

vars ==
    <<rng, pc, call, ev, grid, gradients, corners, noise, frequency, amplitude,
      octave, evals, ret>>

\* The seeds np.random.seed is called with before the call.
Seeds == {0, 1}

\* The interpolant arguments: the default and a caller's own f(t) = t.
Interpolants == {"default", "linear"}

Flags2 == BOOLEAN \X BOOLEAN

Flags3 == BOOLEAN \X BOOLEAN \X BOOLEAN

Shapes2 == (1 .. MaxShape) \X (1 .. MaxShape)

Shapes3 == (1 .. MaxShape3) \X (1 .. MaxShape3) \X (1 .. MaxShape3)

Res2 == (1 .. 2) \X (1 .. 2)

Res3 == {<<1, 1, 1>>, <<2, 1, 1>>, <<1, 2, 2>>, <<2, 2, 2>>}

\* The tileable arguments of the fractal calls.
FractalFlags2 == {<<FALSE, FALSE>>, <<TRUE, FALSE>>}

FractalFlags3 == {<<FALSE, FALSE, FALSE>>, <<TRUE, TRUE, TRUE>>}

\* The shapes of the 3D fractal calls: cubes.
FractalShapes3 == {<<n, n, n>> : n \in 1 .. MaxShape3}

Octaves == -1 .. MaxOctaves

Lacunarities == 1 .. 2

Persistences == {<<1, 2>>}

NoCall == [fn |-> "none"]

NoEval == [res |-> <<>>, entry |-> Seeded(0)]

Init ==
    /\ rng \in {Seeded(s) : s \in Seeds}
    /\ pc = "idle"
    /\ call = NoCall
    /\ ev = NoEval
    /\ grid = NoArray
    /\ gradients = NoArray
    /\ corners = <<>>
    /\ noise = NoArray
    /\ frequency = 1
    /\ amplitude = RInt(1)
    /\ octave = 0
    /\ evals = <<>>
    /\ ret = NoArray

Evaluators == {"generate_perlin_noise_2d", "generate_perlin_noise_3d"}

Fractals == {"generate_fractal_noise_2d", "generate_fractal_noise_3d"}

\* A direct call of an evaluator enters its body.
Direct(fn, shape, res, tileable, f) ==
    /\ call' = [fn |-> fn, shape |-> shape, res |-> res, tileable |-> tileable,
                interpolant |-> f, octaves |-> 1, persistence |-> RInt(1),
                lacunarity |-> 1]
    /\ ev' = [res |-> res, entry |-> rng]
    /\ pc' = "gradients"
    /\ UNCHANGED <<rng, grid, gradients, corners, noise, frequency, amplitude,
                   octave, evals, ret>>

CallPerlin2D ==
    /\ pc = "idle"
    /\ \E shape \in Shapes2, res \in Res2, tileable \in Flags2, f \in Interpolants :
         Direct("generate_perlin_noise_2d", shape, res, tileable, f)

CallPerlin3D ==
    /\ pc = "idle"
    /\ \E shape \in Shapes3, res \in Res3, tileable \in Flags3, f \in {"default"} :
         Direct("generate_perlin_noise_3d", shape, res, tileable, f)

\* generate_fractal_noise_*, up to the loop: noise = np.zeros(shape),
\* frequency = 1, amplitude = 1.
Enter(fn, shape, res, tileable, f, n, p, l) ==
    /\ call' = [fn |-> fn, shape |-> shape, res |-> res, tileable |-> tileable,
                interpolant |-> f, octaves |-> n, persistence |-> p,
                lacunarity |-> l]
    /\ noise' = Zeros(shape)
    /\ frequency' = 1
    /\ amplitude' = RInt(1)
    /\ octave' = 0
    /\ evals' = <<>>
    /\ pc' = "octaves"
    /\ UNCHANGED <<rng, ev, grid, gradients, corners, ret>>

CallFractal2D ==
    /\ pc = "idle"
    /\ \E shape \in Shapes2, res \in Res2, tileable \in FractalFlags2, f \in {"default"},
          n \in Octaves, p \in Persistences, l \in Lacunarities :
         Enter("generate_fractal_noise_2d", shape, res, tileable, f, n, p, l)

CallFractal3D ==
    /\ pc = "idle"
    /\ \E shape \in FractalShapes3, res \in Res3, tileable \in FractalFlags3, f \in {"default"},
          n \in Octaves, p \in Persistences, l \in Lacunarities :
         Enter("generate_fractal_noise_3d", shape, res, tileable, f, n, p, l)

\* The resolution the loop body passes to the evaluator.
ScaledRes(res, freq) == Tup([k \in Axes(res) |-> freq * res[k]])

\* A loop that runs its body once before it first tests the count.
LoopAtLeastOnce(i, n) == i < n \/ i = 0

\* for _ in range(octaves): whether an iteration follows i completed ones.
LoopContinues(i, n) == i < n

\* The loop body calls the evaluator for the next octave.
Octave ==
    /\ pc = "octaves"
    /\ LoopContinues(octave, call.octaves)
    /\ ev' = [res |-> ScaledRes(call.res, frequency), entry |-> rng]
    /\ pc' = "gradients"
    /\ UNCHANGED <<rng, call, grid, gradients, corners, noise, frequency, amplitude,
                   octave, evals, ret>>

\* range(octaves) is exhausted: return noise.
Return ==
    /\ pc = "octaves"
    /\ ~LoopContinues(octave, call.octaves)
    /\ pc' = "returned"
    /\ ret' = noise
    /\ UNCHANGED <<rng, call, ev, grid, gradients, corners, noise, frequency,
                   amplitude, octave, evals>>

\* The number of dimensions of the call in progress.
Dim == Len(call.shape)

\* The evaluator, from delta to gradients: the grid, and the lattice of
\* gradients drawn from the global generator (one rand in 2D, two in 3D).
DrawGradients ==
    /\ pc = "gradients"
    /\ grid' = Grid(call.shape, ev.res)
    /\ gradients' = IF Dim = 2 THEN Gradients2D(ev.res, rng) ELSE Gradients3D(ev.res, rng)
    /\ rng' = Drawn(rng, (Dim - 1) * DrawCount(ev.res))
    /\ pc' = "tile"
    /\ UNCHANGED <<call, ev, corners, noise, frequency, amplitude, octave, evals, ret>>

\* The evaluator, the seam overwrites.
TileSeams ==
    /\ pc = "tile"
    /\ gradients' = Tile(gradients, call.tileable)
    /\ pc' = "corners"
    /\ UNCHANGED <<rng, call, ev, grid, corners, noise, frequency, amplitude, octave,
                   evals, ret>>

\* The evaluator, the repeat and the slices that give the corner arrays.
RepeatAndSlice ==
    /\ pc = "corners"
    /\ gradients' = Repeated(gradients, CellSize(call.shape, ev.res))
    /\ corners' = [c \in 1 .. Len(CornerOffsets(Dim)) |->
                     CornerArray(Repeated(gradients, CellSize(call.shape, ev.res)),
                                 CellSize(call.shape, ev.res), CornerOffsets(Dim)[c])]
    /\ pc' = "ramps"
    /\ UNCHANGED <<rng, call, ev, grid, noise, frequency, amplitude, octave, evals, ret>>

\* An accumulation that scales by the amplitude after it has been updated.
AccumulateLate(acc, amp, p, field) ==
    [sh |-> acc.sh,
     at |-> [i \in Idx(acc.sh) |->
               VAdd[acc.at[i], VScale[RMul[amp, p], field.at[BIdx(i, field.sh)]]]]]

\* noise += amplitude * field, where the shapes allow it (p is the
\* persistence, which the code applies to the amplitude afterwards).
Accumulate(acc, amp, p, field) ==
    [sh |-> acc.sh,
     at |-> [i \in Idx(acc.sh) |->
               VAdd[acc.at[i], VScale[amp, field.at[BIdx(i, field.sh)]]]]]

\* The shape of the evaluator's result, some axis -1 where it raises.
ResultShape == FieldShape(grid.sh, [c \in DOMAIN corners |-> corners[c].sh])

\* The evaluator's result.
Result == Field(ResultShape, grid, corners, call.interpolant)

\* The record of the evaluator call that now ends.
Ended(ok, out) ==
    [res |-> ev.res, entry |-> ev.entry, rng |-> rng, ok |-> ok, out |-> out]

\* Control leaves the evaluator: its locals are gone.
Leave ==
    /\ ev' = NoEval
    /\ grid' = NoArray
    /\ gradients' = NoArray
    /\ corners' = <<>>

\* The evaluator, the ramps and the interpolation, and what the caller does
\* with the outcome.  A direct call returns the field or raises.  The loop of
\* a fractal call adds the field to noise in place, which raises unless
\* the two shapes broadcast to the shape of noise, then updates frequency and
\* amplitude; an exception of the evaluator leaves the fractal call too.
RampsAndInterpolate ==
    /\ pc = "ramps"
    /\ Leave
    /\ evals' = Append(evals, Ended(BroadcastOk(ResultShape),
                                    IF BroadcastOk(ResultShape) THEN Result ELSE NoArray))
    /\ IF call.fn \in Evaluators
       THEN /\ pc' = IF BroadcastOk(ResultShape) THEN "returned" ELSE "raised"
            /\ ret' = IF BroadcastOk(ResultShape) THEN Result ELSE NoArray
            /\ UNCHANGED <<noise, frequency, amplitude, octave>>
       ELSE IF BroadcastOk(ResultShape) /\ Broadcast(noise.sh, ResultShape) = noise.sh
            THEN /\ noise' = Accumulate(noise, amplitude, call.persistence, Result)
                 /\ frequency' = frequency * call.lacunarity
                 /\ amplitude' = RMul[amplitude, call.persistence]
                 /\ octave' = octave + 1
                 /\ pc' = "octaves"
                 /\ ret' = ret
            ELSE /\ pc' = "raised"
                 /\ UNCHANGED <<noise, frequency, amplitude, octave, ret>>
    /\ UNCHANGED <<rng, call>>

Next ==
    \/ CallPerlin2D
    \/ CallPerlin3D
    \/ CallFractal2D
    \/ CallFractal3D
    \/ Octave
    \/ DrawGradients
    \/ TileSeams
    \/ RepeatAndSlice
    \/ RampsAndInterpolate
    \/ Return

Spec == Init /\ [][Next]_vars

\* ------------------------------------------- the same calls, shapes only

\* generate_fractal_noise_2d over shapes up to 2 x MaxWide, every array
\* followed by its shape alone: what a call raises, and the shape of what it
\* returns, depend on no entry of any array.  An evaluator call is one step.

WideShapes2 == (1 .. 2) \X (1 .. MaxWide)

ShapeOnly(sh) == [sh |-> sh, at |-> <<>>]

WideFractalNoise2D ==
    /\ pc = "idle"
    /\ \E shape \in WideShapes2, res \in Res2, n \in 1 .. 2, l \in Lacunarities :
         /\ call' = [fn |-> "generate_fractal_noise_2d", shape |-> shape, res |-> res,
                     tileable |-> <<FALSE, FALSE>>, interpolant |-> "default",
                     octaves |-> n, persistence |-> <<1, 2>>, lacunarity |-> l]
         /\ noise' = ShapeOnly(shape)
    /\ frequency' = 1
    /\ amplitude' = RInt(1)
    /\ octave' = 0
    /\ evals' = <<>>
    /\ pc' = "octaves"
    /\ UNCHANGED <<rng, ev, grid, gradients, corners, ret>>

\* The shape of what generate_perlin_noise_2d(shape, res) returns, some axis
\* -1 where it raises.
PerlinShape2D(shape, res) ==
    FieldShape(GridShape(shape, res),
               [c \in 1 .. 4 |->
                  CornerShape(RepeatedShape(res, CellSize(shape, res)),
                              CellSize(shape, res), CornerOffsets(2)[c])])

\* One iteration of the loop, the evaluator call included.
WideOctave2D ==
    /\ pc = "octaves"
    /\ LoopContinues(octave, call.octaves)
    /\ LET res == ScaledRes(call.res, frequency)
           sh  == PerlinShape2D(call.shape, ScaledRes(call.res, frequency))
       IN  /\ rng' = Drawn(rng, DrawCount(res))
           /\ evals' = Append(evals, [res |-> res, entry |-> rng,
                                      rng |-> Drawn(rng, DrawCount(res)),
                                      ok |-> BroadcastOk(sh), out |-> ShapeOnly(sh)])
           /\ IF BroadcastOk(sh) /\ Broadcast(noise.sh, sh) = noise.sh
              THEN /\ frequency' = frequency * call.lacunarity
                   /\ amplitude' = RMul[amplitude, call.persistence]
                   /\ octave' = octave + 1
                   /\ pc' = "octaves"
              ELSE /\ pc' = "raised"
                   /\ UNCHANGED <<frequency, amplitude, octave>>
    /\ UNCHANGED <<call, ev, grid, gradients, corners, noise, ret>>

NextShape ==
    \/ WideFractalNoise2D
    \/ WideOctave2D
    \/ Return

SpecShape == Init /\ [][NextShape]_vars

\* ------------------------------------------------------------- properties

Finished == pc \in {"returned", "raised"}

\* Control is inside an evaluator call, the gradients drawn.
Drew == pc \in {"tile", "corners", "ramps"}

\* Every axis of shape is an exact multiple of the same axis of res.
Multiple(shape, res) == \A k \in Axes(shape) : shape[k] % res[k] = 0

\* The generator state the outermost call started from.
Entry ==
    IF evals # <<>> THEN evals[1].entry
    ELSE IF pc \in {"gradients", "tile", "corners", "ramps"} THEN ev.entry ELSE rng

\* The resolution of octave k (k = 0 is the first), from the arguments.
OctaveRes(k) == ScaledRes(call.res, Pow[call.lacunarity, k])

\* The draws of octaves 0 .. k-1 of a 2D fractal call.
DrawsBefore[k \in Int] ==
    IF k <= 0 THEN 0
    ELSE DrawsBefore[k - 1] + (OctaveRes(k - 1)[1] + 1) * (OctaveRes(k - 1)[2] + 1)

\* C1: an evaluator call, 2D or 3D, whose shape is not a multiple of res on
\* some axis raises: it never returns an array, truncated, padded or empty.
C1_MismatchRaises ==
    (call.fn \in Evaluators /\ Finished /\ ~Multiple(call.shape, call.res))
        => pc = "raised"

\* C2: a fractal call, 2D or 3D, with octaves <= 0 fails and produces no field.
C2_NonPositiveOctavesRaise ==
    (call.fn \in Fractals /\ call.octaves <= 0) => pc # "returned"

\* C2 as amended: a fractal call, 2D or 3D, with octaves <= 0 never calls the
\* evaluator, never raises, draws nothing, and returns the all-zero field of
\* its shape.
C2_NonPositiveOctavesReturnZeros ==
    (call.fn \in Fractals /\ call.octaves <= 0) =>
        /\ pc \in {"octaves", "returned"}
        /\ evals = <<>>
        /\ rng.count = 0
        /\ pc = "returned" =>
             /\ ret.sh = call.shape
             /\ \A i \in Idx(call.shape) : ret.at[i] = VZero

C2_Witness ==
    /\ call.fn \in Fractals
    /\ call.octaves <= 0
    /\ pc = "returned"
    /\ Size(ret.sh) > 1

\* C3: a call of generate_fractal_noise_2d with octaves >= 1 raises if and
\* only if some axis of shape is not a multiple of res * lacunarity^(octaves-1)
\* on that axis; and where every axis is such a multiple, every axis is a
\* multiple of res * lacunarity^k for every octave k below octaves.
C3_FailsIffNotMultiple ==
    (call.fn = "generate_fractal_noise_2d" /\ Finished /\ call.octaves >= 1) =>
        /\ pc = "raised" <=> ~Multiple(call.shape, OctaveRes(call.octaves - 1))
        /\ Multiple(call.shape, OctaveRes(call.octaves - 1)) =>
             \A k \in 0 .. call.octaves - 1 : Multiple(call.shape, OctaveRes(k))

\* C4: in every evaluator call, 2D or 3D, once all the seam overwrites are
\* done, for every axis flagged tileable the last slice of the lattice along
\* the axis equals the first slice at every position of the other axes.
C4_SeamSlicesEqual ==
    pc = "corners" =>
        \A k \in Axes(call.tileable) :
            call.tileable[k] =>
                \A i \in Idx(gradients.sh) :
                    gradients.at[With(i, k, gradients.sh[k] - 1)]
                        = gradients.at[With(i, k, 0)]

\* A 3D lattice, every axis tileable, whose far corner was drawn different
\* from its near corner and from its neighbours along two axes.
C4_Witness ==
    /\ pc = "corners"
    /\ call.fn = "generate_perlin_noise_3d"
    /\ call.tileable = <<TRUE, TRUE, TRUE>>
    /\ LET raw  == Gradients3D(ev.res, ev.entry)
           last == Tup([k \in 1 .. 3 |-> gradients.sh[k] - 1])
       IN  /\ raw.at[last] # raw.at[<<0, 0, 0>>]
           /\ raw.at[With(last, 1, 0)] # raw.at[<<0, 0, 0>>]
           /\ raw.at[With(last, 3, 0)] # raw.at[<<0, 0, 0>>]
           /\ gradients.at[last] = raw.at[<<0, 0, 0>>]

\* Sample i of the sum over octaves 0 .. n-1, accumulated in ascending order,
\* of persistence^k times the field the evaluator returned for octave k.
WeightedSum[n \in Int, i \in Nat \X Nat] ==
    IF n <= 0 THEN VZero
    ELSE VAdd[WeightedSum[n - 1, i],
              VScale[RPow[call.persistence, n - 1], evals[n].out.at[i]]]

\* C5: the field generate_fractal_noise_2d returns for octaves = n >= 1 is the
\* sum over k = 0 .. n-1 of persistence^k times the field the evaluator
\* returned for octave k, which it was called for with res scaled by
\* lacunarity^k and with the generator as octaves 0 .. k-1 left it; for
\* octaves = 1 it is the field of a direct evaluator call from the same
\* generator state.
C5_FractalIsWeightedSum ==
    (call.fn = "generate_fractal_noise_2d" /\ pc = "returned" /\ call.octaves >= 1) =>
        /\ Len(evals) = call.octaves
        /\ \A k \in 1 .. Len(evals) :
               /\ evals[k].res = OctaveRes(k - 1)
               /\ evals[k].entry = Advance(Entry, DrawsBefore[k - 1])
        /\ ret.sh = call.shape
        /\ \A i \in Idx(call.shape) : ret.at[i] = WeightedSum[call.octaves, i]
        /\ call.octaves = 1 =>
             ret = generate_perlin_noise_2d(call.shape, call.res, call.tileable,
                                            call.interpolant, Entry)

\* Three octaves of doubling frequency were summed, the second not zero.
C5_Witness ==
    /\ call.fn = "generate_fractal_noise_2d"
    /\ pc = "returned"
    /\ call.octaves = 3
    /\ call.lacunarity = 2
    /\ \E i \in Idx(call.shape) :
           /\ evals[2].out.at[i] # VZero
           /\ ret.at[i] # evals[1].out.at[i]

\* The field the 2D evaluator returns for octave k when it is called with
\* the generator in state g.
OctaveField(k, g) ==
    generate_perlin_noise_2d(call.shape, OctaveRes(k), call.tileable, call.interpolant, g)

\* A 2D fractal call has returned or raised.
FractalDone == call.fn = "generate_fractal_noise_2d" /\ pc \in {"returned", "raised"}

\* C7: the field octave k of a 2D fractal call contributes does not depend on
\* the octaves evaluated before it: it is the field the same evaluator call
\* yields when it is the first to run.
C7_OctaveFieldOrderFree ==
    FractalDone =>
        \A k \in 1 .. Len(evals) : evals[k].ok => evals[k].out = OctaveField(k - 1, Entry)

\* C7 as amended: the octaves of a 2D fractal call share the global generator
\* and nothing else.  Octave k starts from the generator as octaves 0 .. k-1
\* left it, and its field is the evaluator's field for that generator state
\* and the octave's arguments.
C7_OctaveFieldFromGenerator ==
    FractalDone =>
        \A k \in 1 .. Len(evals) :
            /\ evals[k].entry = Advance(Entry, DrawsBefore[k - 1])
            /\ evals[k].ok =>
                 evals[k].out = OctaveField(k - 1, Advance(Entry, DrawsBefore[k - 1]))

\* A second octave whose field differs from the one it would have yielded
\* had it run first.
C7_Witness ==
    /\ FractalDone
    /\ Len(evals) >= 2
    /\ evals[2].ok
    /\ evals[2].out # OctaveField(1, Entry)

\* C8: in the field of every evaluator call that returns, 2D or 3D, every
\* sample whose index is a multiple of d[k] on every axis k is exactly 0
\* (both interpolants of the model vanish at 0); for res = shape every
\* sample is 0.
C8_CornerSamplesZero ==
    \A n \in 1 .. Len(evals) : evals[n].ok =>
        /\ \A i \in Idx(evals[n].out.sh) :
               (\A k \in Axes(i) : i[k] % CellSize(call.shape, evals[n].res)[k] = 0)
                   => evals[n].out.at[i] = VZero
        /\ evals[n].res = call.shape =>
               \A i \in Idx(evals[n].out.sh) : evals[n].out.at[i] = VZero

\* A returned field with several cells, a sample that is not 0, and a corner
\* sample away from the origin.
C8_Witness ==
    \E n \in 1 .. Len(evals) :
        /\ evals[n].ok
        /\ evals[n].res # call.shape
        /\ \A k \in Axes(call.shape) : CellSize(call.shape, evals[n].res)[k] >= 2
        /\ \E i \in Idx(evals[n].out.sh) : evals[n].out.at[i] # VZero
        /\ \E i \in Idx(evals[n].out.sh) :
               /\ i[1] > 0
               /\ \A k \in Axes(i) : i[k] % CellSize(call.shape, evals[n].res)[k] = 0

\* The lattice index of the cell that encloses sample index i, moved by c.
Cell(i, d, c) == Tup([k \in Axes(i) |-> i[k] \div d[k] + c[k]])

\* The lattice of the evaluator call in progress: the gradients drawn at
\* its entry, the seams overwritten.
Lattice == Tile(Gradients2D(ev.res, ev.entry), call.tileable)

\* C9: in generate_perlin_noise_2d with shape[k] = d[k] * res[k], d[k] >= 1,
\* each of g00, g10, g01, g11 has shape[0] x shape[1] entries and holds, at
\* sample (i, j), the lattice gradient at (i div d0 + a, j div d1 + b) for its
\* corner (a, b), every lattice index within 0 .. res[axis].
C9_CornerArraysHoldCellCorners ==
    (pc = "ramps" /\ Dim = 2 /\ Multiple(call.shape, ev.res)) =>
        \A c \in 1 .. 4 :
            /\ corners[c].sh = call.shape
            /\ \A i \in Idx(call.shape) :
                   LET at == Cell(i, CellSize(call.shape, ev.res), CornerOffsets(2)[c])
                   IN  /\ \A k \in 1 .. 2 : at[k] \in 0 .. ev.res[k]
                       /\ corners[c].at[i] = Lattice.at[at]

\* Two cells of two samples on each axis, over a lattice whose gradients
\* differ between neighbours.
C9_Witness ==
    /\ pc = "ramps"
    /\ call.fn = "generate_perlin_noise_2d"
    /\ ev.res = <<2, 2>>
    /\ call.shape = <<4, 4>>
    /\ Lattice.at[<<0, 0>>] # Lattice.at[<<1, 0>>]
    /\ Lattice.at[<<1, 1>>] # Lattice.at[<<1, 2>>]
    /\ corners[4].at[<<3, 3>>] = Lattice.at[<<2, 2>>]
    /\ corners[2].at[<<1, 2>>] = Lattice.at[<<1, 1>>]

\* C10: every call of generate_perlin_noise_2d advances the global generator
\* by exactly (res[0]+1)*(res[1]+1) draws, whether it returns or raises and
\* whatever shape and tileable are; a fractal call has consumed the draws of
\* every octave it started, the failing one included.
C10_DrawsPerCall ==
    (call.fn \in {"generate_perlin_noise_2d", "generate_fractal_noise_2d"}) =>
        /\ \A n \in 1 .. Len(evals) :
               evals[n].rng = Advance(evals[n].entry,
                                      (evals[n].res[1] + 1) * (evals[n].res[2] + 1))
        /\ Drew => rng = Advance(ev.entry, (ev.res[1] + 1) * (ev.res[2] + 1))
        /\ ~Drew /\ pc # "gradients" => rng = Advance(Entry, DrawsBefore[Len(evals)])
        /\ pc = "raised" => rng.count > Entry.count

\* A fractal call that raised in its third octave, after two that returned.
C10_Witness ==
    /\ call.fn = "generate_fractal_noise_2d"
    /\ pc = "raised"
    /\ Len(evals) = 3
    /\ call.tileable[1]
    /\ ~evals[3].ok
    /\ rng.count = DrawsBefore[3]

====
